---------------------------- MODULE Spec2Model ----------------------------
(***************************************************************************)
(* A model of canmaps (src/core.py, src/app.py): the postal code           *)
(* normalizer, the two gazetteer lookup builders, the batch distance       *)
(* resolver and the Streamlit session around them.                         *)
(*                                                                         *)
(* Text is a sequence of one-character strings, so that upper-casing,      *)
(* regular-expression search, stripping and number parsing are computed    *)
(* character by character as the code computes them.  Numbers are integers *)
(* counted in thousandths (49.5 is 49500).                                 *)
(***************************************************************************)
EXTENDS Integers, Sequences, FiniteSets, TLC

VARIABLES
    \* normalize_postal called on one text
    nPre, nH1, nSep, nH2, nSuf, nOut, nPc,
    \* load_gazetteer_subset: its arguments, its locals and where it stands
    gNeeded, gPaths, gChunk, gNeededNorm, gPi, gM, gRead, gLastErr, gPc,
    \* build_postal_lookup_from_df: the uploaded table, the rows done, the dict
    bDf, bRow, bM, bPc,
    \* process_dataframe: its arguments and the process environment, its
    \* locals, the routing calls made and how each ended, and what it returns
    pCols, pDf, pPostalCol, pLookup, pApiKey, pEnvKey, pOrigin,
    pClient, pI, pOut, pCalls, pOutcomes, pResult, pPc,
    \* the Streamlit session: st.session_state, the widgets' values, and how
    \* the last run of the script's Compute block ended and what it worked with
    sLookup, sMode, aKey, aUp, aDf, aOriginMode, aOriginPc, aRun, aUsed

normVars == <<nPre, nH1, nSep, nH2, nSuf, nOut, nPc>>
subsetVars == <<gNeeded, gPaths, gChunk, gNeededNorm, gPi, gM, gRead, gLastErr, gPc>>
buildVars == <<bDf, bRow, bM, bPc>>
batchVars == <<pCols, pDf, pPostalCol, pLookup, pApiKey, pEnvKey, pOrigin,
               pClient, pI, pOut, pCalls, pOutcomes, pResult, pPc>>
appVars == <<sLookup, sMode, aKey, aUp, aDf, aOriginMode, aOriginPc, aRun, aUsed>>
vars == <<normVars, subsetVars, buildVars, batchVars, appVars>>

---------------------------------------------------------------------------
(* Characters and the Python string predicates the code uses.              *)

LowerLetters == {"a", "b", "c", "n", "t", "v", "x", "z"}
UpperLetters == {"A", "B", "C", "N", "T", "V", "X", "Z"}
Digits == {"0", "1", "2", "3", "4", "5", "6", "7", "8", "9"}
Whitespace == {" "}

\* str.upper() on one character
UpperChar(c) ==
    CASE c = "a" -> "A" [] c = "b" -> "B" [] c = "c" -> "C" [] c = "n" -> "N"
      [] c = "t" -> "T" [] c = "v" -> "V" [] c = "x" -> "X" [] c = "z" -> "Z"
      [] OTHER -> c

\* str.upper()
Upper(s) == [i \in 1..Len(s) |-> UpperChar(s[i])]

\* str.isalnum() on one character
IsAlnum(c) == c \in LowerLetters \cup UpperLetters \cup Digits

\* "".join(ch for ch in s if ch.isalnum())
RECURSIVE KeepAlnum(_)
KeepAlnum(s) ==
    IF s = <<>> THEN <<>>
    ELSE IF IsAlnum(Head(s)) THEN <<Head(s)>> \o KeepAlnum(Tail(s))
    ELSE KeepAlnum(Tail(s))

\* s.replace(" ", "")
RECURSIVE Unspace(_)
Unspace(s) ==
    IF s = <<>> THEN <<>>
    ELSE IF Head(s) = " " THEN Unspace(Tail(s))
    ELSE <<Head(s)>> \o Unspace(Tail(s))

\* alnum[:3] + " " + alnum[3:]
SpaceAfterThird(alnum) ==
    SubSeq(alnum, 1, 3) \o <<" ">> \o SubSeq(alnum, 4, Len(alnum))

---------------------------------------------------------------------------
(* normalize_postal: re.search of                                          *)
(*   [A-Z]\s*[\d]\s*[A-Z]\s*[\d]\s*[A-Z]\s*[\d]                            *)
(* in the upper-cased text.                                                *)

\* the k-th element of the pattern is a letter class for odd k, a digit for even k
PatternClass(k) == IF k % 2 = 1 THEN UpperLetters ELSE Digits

\* first index >= i of s that holds no whitespace (\s* is greedy, and the class
\* that follows it never matches whitespace, so no backtracking is needed)
RECURSIVE SkipWhitespace(_, _)
SkipWhitespace(s, i) ==
    IF i <= Len(s) /\ s[i] \in Whitespace THEN SkipWhitespace(s, i + 1) ELSE i

\* Matches pattern elements k..6 from index i of s; the index of the last
\* character matched, or 0 when there is no match.
RECURSIVE MatchFrom(_, _, _)
MatchFrom(s, i, k) ==
    LET j == IF k = 1 THEN i ELSE SkipWhitespace(s, i)
    IN  IF j > Len(s) \/ s[j] \notin PatternClass(k) THEN 0
        ELSE IF k = 6 THEN j
        ELSE MatchFrom(s, j + 1, k + 1)

\* re.search: the leftmost start that matches; <<start, end>> or <<0, 0>>
RECURSIVE SearchPostal(_, _)
SearchPostal(s, i) ==
    IF i > Len(s) THEN <<0, 0>>
    ELSE LET e == MatchFrom(s, i, 1)
         IN  IF e # 0 THEN <<i, e>> ELSE SearchPostal(s, i + 1)

\* The empty text stands for "".
normalize_postal(pc) ==
    LET s == Upper(pc)
        m == SearchPostal(s, 1)
    IN  IF m[1] = 0 THEN <<>>
        ELSE LET alnum == KeepAlnum(SubSeq(s, m[1], m[2]))
             IN  IF Len(alnum) # 6 THEN <<>>
                 ELSE SpaceAfterThird(alnum)

---------------------------------------------------------------------------
(* Numbers in text.  A value is an integer counted in thousandths.         *)

DigitVal(c) ==
    CASE c = "0" -> 0 [] c = "1" -> 1 [] c = "2" -> 2 [] c = "3" -> 3
      [] c = "4" -> 4 [] c = "5" -> 5 [] c = "6" -> 6 [] c = "7" -> 7
      [] c = "8" -> 8 [] c = "9" -> 9

DigitChar(d) == <<"0", "1", "2", "3", "4", "5", "6", "7", "8", "9">>[d + 1]

\* s[i] is a digit: the index of the last digit of the run that starts there
RECURSIVE DigitsEnd(_, _)
DigitsEnd(s, i) ==
    IF i + 1 <= Len(s) /\ s[i + 1] \in Digits THEN DigitsEnd(s, i + 1) ELSE i

\* the natural number written by the digits s[i..j]
RECURSIVE NatOf(_, _, _)
NatOf(s, i, j) ==
    IF j < i THEN 0 ELSE NatOf(s, i, j - 1) * 10 + DigitVal(s[j])

\* the fraction written by the digits s[i..j] after a point, in thousandths
FracOf(s, i, j) ==
    LET d(k) == IF i + k <= j THEN DigitVal(s[i + k]) ELSE 0
    IN  d(0) * 100 + d(1) * 10 + d(2)

NotANumber == [ok |-> FALSE, v |-> 0, int |-> FALSE]

\* [-+]?\d+(?:\.\d+)? matched at index i of s, then float() of the match
NumberAt(s, i) ==
    LET signed == s[i] \in {"-", "+"}
        d0 == IF signed THEN i + 1 ELSE i
    IN  IF d0 > Len(s) \/ s[d0] \notin Digits THEN NotANumber
        ELSE LET e == DigitsEnd(s, d0)
                 frac == e + 2 <= Len(s) /\ s[e + 1] = "." /\ s[e + 2] \in Digits
                 mag == NatOf(s, d0, e) * 1000
                        + (IF frac THEN FracOf(s, e + 2, DigitsEnd(s, e + 2)) ELSE 0)
             IN  [ok |-> TRUE, v |-> IF s[i] = "-" THEN 0 - mag ELSE mag,
                  int |-> ~frac]

\* float(re.search(r'[-+]?\d+(?:\.\d+)?', s).group(0)): the leftmost match
RECURSIVE SearchNumber(_, _)
SearchNumber(s, i) ==
    IF i > Len(s) THEN NotANumber
    ELSE LET n == NumberAt(s, i)
         IN  IF n.ok THEN n ELSE SearchNumber(s, i + 1)

\* str.strip()
RECURSIVE StripLeft(_)
StripLeft(s) ==
    IF s # <<>> /\ Head(s) \in Whitespace THEN StripLeft(Tail(s)) ELSE s

RECURSIVE StripRight(_)
StripRight(s) ==
    IF s # <<>> /\ s[Len(s)] \in Whitespace
    THEN StripRight(SubSeq(s, 1, Len(s) - 1)) ELSE s

Strip(s) == StripRight(StripLeft(s))

\* the "robust float parsing" of both builders on the text of a cell
parse_float(text) == SearchNumber(Strip(text), 1)

---------------------------------------------------------------------------
(* pd.read_csv.  A file is a sequence of rows of cell texts.  Each frame    *)
(* read_csv returns (the whole file, or one chunk of it) has its columns'  *)
(* types inferred from the cells of that frame alone: a column whose cells *)
(* all read as numbers (or are missing) holds numbers, and str() of such a *)
(* cell is the number's repr; any other column holds the cells' texts.     *)

\* the cell texts read_csv takes for a missing value (those of the alphabet)
IsNA(text) == text \in { <<>>, <<"N", "A">> }

\* The whole cell as a number: [-+]? (digits [. digits*] | . digits).
NumericCell(text) ==
    LET signed == text # <<>> /\ text[1] \in {"-", "+"}
        d0 == IF signed THEN 2 ELSE 1
        sgn(mag) == IF signed /\ text[1] = "-" THEN 0 - mag ELSE mag
        n == Len(text)
    IN  IF d0 > n THEN NotANumber
        ELSE IF text[d0] \in Digits THEN
            LET e == DigitsEnd(text, d0)
                ip == NatOf(text, d0, e) * 1000
            IN  IF e = n THEN [ok |-> TRUE, v |-> sgn(ip), int |-> TRUE]
                ELSE IF text[e + 1] # "." THEN NotANumber
                ELSE IF e + 1 = n THEN [ok |-> TRUE, v |-> sgn(ip), int |-> FALSE]
                ELSE IF text[e + 2] \in Digits /\ DigitsEnd(text, e + 2) = n
                THEN [ok |-> TRUE, v |-> sgn(ip + FracOf(text, e + 2, n)), int |-> FALSE]
                ELSE NotANumber
        ELSE IF text[d0] = "." /\ d0 + 1 <= n /\ text[d0 + 1] \in Digits
                /\ DigitsEnd(text, d0 + 1) = n
        THEN [ok |-> TRUE, v |-> sgn(FracOf(text, d0 + 1, n)), int |-> FALSE]
        ELSE NotANumber

\* the type read_csv infers for a column from the cells of one frame
ColumnDtype(cells) ==
    IF \E i \in 1..Len(cells) : ~IsNA(cells[i]) /\ ~NumericCell(cells[i]).ok
    THEN "object"
    ELSE IF \E i \in 1..Len(cells) : IsNA(cells[i]) \/ ~NumericCell(cells[i]).int
    THEN "float64"
    ELSE "int64"

\* str() of a natural number
RECURSIVE NatRepr(_)
NatRepr(n) ==
    IF n < 10 THEN <<DigitChar(n)>> ELSE NatRepr(n \div 10) \o <<DigitChar(n % 10)>>

\* the digits of a fraction f (in thousandths) after the point, as repr writes them
FracRepr(f) ==
    IF f % 100 = 0 THEN <<DigitChar(f \div 100)>>
    ELSE IF f % 10 = 0 THEN <<DigitChar(f \div 100), DigitChar((f \div 10) % 10)>>
    ELSE <<DigitChar(f \div 100), DigitChar((f \div 10) % 10), DigitChar(f % 10)>>

\* str() of an int (sixty-four bits are never reached by the cells used)
IntRepr(v) ==
    LET mag == IF v < 0 THEN 0 - v ELSE v
    IN  (IF v < 0 THEN <<"-">> ELSE <<>>) \o NatRepr(mag \div 1000)

\* str() of a float of ordinary magnitude: repr always writes a point
FloatRepr(v) ==
    LET mag == IF v < 0 THEN 0 - v ELSE v
    IN  (IF v < 0 THEN <<"-">> ELSE <<>>)
            \o NatRepr(mag \div 1000) \o <<".">> \o FracRepr(mag % 1000)

\* str(getattr(row, col)) for a cell of a column of the given type
StrOfCell(dtype, text) ==
    IF IsNA(text) THEN <<"n", "a", "n">>
    ELSE IF dtype = "object" THEN text
    ELSE IF dtype = "int64" THEN IntRepr(NumericCell(text).v)
    ELSE FloatRepr(NumericCell(text).v)

Column(rows, col) == [i \in 1..Len(rows) |-> rows[i][col]]

\* The rows of one frame as itertuples() and str() show them.
ReadFrame(rows) ==
    [i \in 1..Len(rows) |->
        [pc  |-> StrOfCell(ColumnDtype(Column(rows, "pc")), rows[i].pc),
         lat |-> StrOfCell(ColumnDtype(Column(rows, "lat")), rows[i].lat),
         lon |-> StrOfCell(ColumnDtype(Column(rows, "lon")), rows[i].lon)]]

---------------------------------------------------------------------------
(* Gazetteer lookups: dicts from key text to (lat, lon).                   *)

EmptyLookup == <<>>

\* m[k] = pair
Put(m, k, pair) == [x \in DOMAIN m \cup {k} |-> IF x = k THEN pair ELSE m[x]]

\* a builder that stores a row under its spaced key only
BuildRowKeepsOneKey(m, row) ==
    LET alnum == KeepAlnum(Upper(row.pc))
        lat == parse_float(row.lat)
        lon == parse_float(row.lon)
    IN  IF alnum = <<>> THEN m
        ELSE IF ~lat.ok \/ ~lon.ok THEN m
        ELSE Put(m, IF Len(alnum) = 6 THEN SpaceAfterThird(alnum) ELSE alnum,
                 <<lat.v, lon.v>>)

\* One row of build_postal_lookup_from_df.  The row is given as str() shows its
\* cells: pd.isna(x) is the cell whose text is "nan", in which the pattern of
\* parse_float finds no number either.
BuildRow(m, row) ==
    LET alnum == KeepAlnum(Upper(row.pc))
        key_spaced == IF Len(alnum) = 6 THEN SpaceAfterThird(alnum) ELSE alnum
        key_nospace == alnum
        lat == parse_float(row.lat)
        lon == parse_float(row.lon)
    IN  IF alnum = <<>> THEN m
        ELSE IF ~lat.ok \/ ~lon.ok THEN m
        ELSE Put(Put(m, key_spaced, <<lat.v, lon.v>>), key_nospace, <<lat.v, lon.v>>)

\* needed_norm of load_gazetteer_subset
NeededNorm(needed_postals) ==
    UNION { IF normalize_postal(pc) = <<>> THEN {}
            ELSE {normalize_postal(pc), Unspace(normalize_postal(pc))} :
            pc \in needed_postals }

\* a row scan in which the first row of a key wins
ScanRowKeepsFirst(m, row, needed_norm) ==
    LET key == normalize_postal(row.pc)
        lat == parse_float(row.lat)
        lon == parse_float(row.lon)
    IN  IF key = <<>> \/ key \in DOMAIN m THEN m
        ELSE IF key \notin needed_norm /\ Unspace(key) \notin needed_norm THEN m
        ELSE IF ~lat.ok \/ ~lon.ok THEN m
        ELSE Put(Put(m, key, <<lat.v, lon.v>>), Unspace(key), <<lat.v, lon.v>>)

\* One row of a chunk, of load_gazetteer_subset.
ScanRow(m, row, needed_norm) ==
    LET key == normalize_postal(row.pc)
        lat == parse_float(row.lat)
        lon == parse_float(row.lon)
    IN  IF key = <<>> THEN m
        ELSE IF key \notin needed_norm /\ Unspace(key) \notin needed_norm THEN m
        ELSE IF ~lat.ok \/ ~lon.ok THEN m
        ELSE Put(Put(m, key, <<lat.v, lon.v>>), Unspace(key), <<lat.v, lon.v>>)

\* for row in chunk.itertuples(index=False)
RECURSIVE ScanRows(_, _, _)
ScanRows(m, rows, needed_norm) ==
    IF rows = <<>> THEN m
    ELSE ScanRows(ScanRow(m, Head(rows), needed_norm), Tail(rows), needed_norm)

\* an exit test content with one code found
AllFoundAny(m, needed_norm) ==
    \E k \in needed_norm : k \in DOMAIN m

\* the early-exit test
AllFound(m, needed_norm) ==
    \A k \in needed_norm : k \in DOMAIN m \/ Unspace(k) \in DOMAIN m

---------------------------------------------------------------------------
(* The gazetteer files and needed-sets the loaders are run on.             *)

MaxRows == 3
MaxChunk == 3

GazRows ==
    { [pc |-> <<"a", "1", "a", " ", "1", "a", "1">>, lat |-> <<"4", "9">>,
       lon |-> <<"-", "1">>],
      [pc |-> <<"A", "1", "A", "1", "A", "1">>, lat |-> <<".", "5">>,
       lon |-> <<"-", "1">>],
      [pc |-> <<"B", "2", "B", " ", "2", "B", "2">>, lat |-> <<"4", "9", "N">>,
       lon |-> <<"-", "1", ".", "5">>],
      [pc |-> <<"b", "2", "b", "2", "b", "2">>, lat |-> <<"x">>,
       lon |-> <<"-", "1">>],
      [pc |-> <<"A", "1", "A", "1", "A">>, lat |-> <<"4", "9">>,
       lon |-> <<"5">>] }

Tables(n) == UNION { [1..k -> GazRows] : k \in 0..n }

NeededSets ==
    { {},
      { <<"x">> },
      { <<"a", "1", "a", "1", "a", "1">> },
      { <<"B", "2", "B", " ", "2", "B", "2">> },
      { <<"A", "1", "A", " ", "1", "A", "1">>, <<"b", "2", "b", "2", "b", "2">> },
      { <<"A", "1", "A", " ", "1", "A", "1">>, <<"C", "3", "C", " ", "3", "C", "3">> } }

\* A candidate path: the file's rows, and whether and where reading it raises
\* (at 0: opening it or reading its header; at k: fetching its k-th chunk).
Readable(rows) == [rows |-> rows, fails |-> FALSE, at |-> 0]
Unreadable(rows, k) == [rows |-> rows, fails |-> TRUE, at |-> k]

BrokenCandidates ==
    { Unreadable(<<>>, 0) } \cup
    { Unreadable(t, 2) : t \in { r \in Tables(MaxRows) : Len(r) = 2 /\ r[1] # r[2]
                                     /\ r[1].lat = <<".", "5">> } }

FallbackTables == { t \in Tables(MaxRows) : Len(t) = 1 /\ t[1].lat = <<"4", "9">> }

PathLists ==
    { <<Readable(t)>> : t \in Tables(MaxRows) }
      \cup { <<b, Readable(t)>> : b \in BrokenCandidates, t \in FallbackTables }
      \cup { <<b>> : b \in BrokenCandidates }
      \cup { <<b, Unreadable(<<>>, 0)>> : b \in BrokenCandidates }

---------------------------------------------------------------------------
(* load_gazetteer_subset as it runs: one step per candidate opened and per *)
(* chunk read.                                                             *)

SubsetInit ==
    /\ gNeeded \in NeededSets
    /\ gPaths \in PathLists
    /\ gChunk \in 1..MaxChunk
    /\ gNeededNorm = {}
    /\ gPi = 1
    /\ gM = EmptyLookup
    /\ gRead = 0
    /\ gLastErr = 0
    /\ gPc = "start"

SubsetIdle ==
    /\ gNeeded = {} /\ gPaths = <<>> /\ gChunk = 1 /\ gNeededNorm = {}
    /\ gPi = 1 /\ gM = EmptyLookup /\ gRead = 0 /\ gLastErr = 0 /\ gPc = "idle"

Candidate == gPaths[gPi]

\* the rows of the (k+1)-th chunk of a file read chunksize rows at a time
ChunkRows(rows, chunksize, k) ==
    SubSeq(rows, k * chunksize + 1,
           IF (k + 1) * chunksize < Len(rows) THEN (k + 1) * chunksize ELSE Len(rows))

\* Normalize the target set; with nothing to look for, return {} at once.
NormalizeNeeded ==
    /\ gPc = "start"
    /\ gNeededNorm' = NeededNorm(gNeeded)
    /\ gPc' = IF NeededNorm(gNeeded) = {} THEN "done" ELSE "open"
    /\ UNCHANGED <<gNeeded, gPaths, gChunk, gPi, gM, gRead, gLastErr>>

\* a candidate opened with the entries of the one before still in m
OpenCandidateKeepingEntries ==
    /\ gPc = "open"
    /\ gPi <= Len(gPaths)
    /\ ~(Candidate.fails /\ Candidate.at = 0)
    /\ gM' = gM
    /\ gRead' = 0
    /\ gPc' = "scan"
    /\ UNCHANGED <<gNeeded, gPaths, gChunk, gNeededNorm, gPi, gLastErr>>

\* for p in paths: try: read the header, m = {}
OpenCandidate ==
    /\ gPc = "open"
    /\ gPi <= Len(gPaths)
    /\ ~(Candidate.fails /\ Candidate.at = 0)
    /\ gM' = EmptyLookup
    /\ gRead' = 0
    /\ gPc' = "scan"
    /\ UNCHANGED <<gNeeded, gPaths, gChunk, gNeededNorm, gPi, gLastErr>>

\* except Exception as e: last_err = e; continue (the header read raised)
OpenFails ==
    /\ gPc = "open"
    /\ gPi <= Len(gPaths)
    /\ Candidate.fails /\ Candidate.at = 0
    /\ gLastErr' = gPi
    /\ gPi' = gPi + 1
    /\ UNCHANGED <<gNeeded, gPaths, gChunk, gNeededNorm, gM, gRead, gPc>>

\* One chunk: every row of it, then the early-exit test.
ReadChunk ==
    /\ gPc = "scan"
    /\ gRead * gChunk < Len(Candidate.rows)
    /\ ~(Candidate.fails /\ Candidate.at = gRead + 1)
    /\ LET chunk == ReadFrame(ChunkRows(Candidate.rows, gChunk, gRead))
           m == ScanRows(gM, chunk, gNeededNorm)
       IN  /\ gM' = m
           /\ gPc' = IF AllFound(m, gNeededNorm) THEN "done" ELSE "scan"
    /\ gRead' = gRead + 1
    /\ UNCHANGED <<gNeeded, gPaths, gChunk, gNeededNorm, gPi, gLastErr>>

\* The reader has no further chunk: the loop ends and m is returned.
SourceExhausted ==
    /\ gPc = "scan"
    /\ gRead * gChunk >= Len(Candidate.rows)
    /\ ~(Candidate.fails /\ Candidate.at = gRead + 1)
    /\ gPc' = "done"
    /\ UNCHANGED <<gNeeded, gPaths, gChunk, gNeededNorm, gPi, gM, gRead, gLastErr>>

\* except Exception as e: last_err = e; continue (fetching a chunk raised)
ChunkFails ==
    /\ gPc = "scan"
    /\ Candidate.fails /\ Candidate.at = gRead + 1
    /\ gLastErr' = gPi
    /\ gPi' = gPi + 1
    /\ gPc' = "open"
    /\ UNCHANGED <<gNeeded, gPaths, gChunk, gNeededNorm, gM, gRead>>

\* raise RuntimeError(... Last error: {last_err})
AllCandidatesFailed ==
    /\ gPc = "open"
    /\ gPi > Len(gPaths)
    /\ gPc' = "failed"
    /\ UNCHANGED <<gNeeded, gPaths, gChunk, gNeededNorm, gPi, gM, gRead, gLastErr>>

SubsetNext ==
    \/ NormalizeNeeded
    \/ OpenCandidate
    \/ OpenFails
    \/ ReadChunk
    \/ SourceExhausted
    \/ ChunkFails
    \/ AllCandidatesFailed

---------------------------------------------------------------------------
(* build_postal_lookup_from_df as it runs: one step per row of the table,  *)
(* which read_csv has read as one frame.                                   *)

BuildInit ==
    /\ bDf \in Tables(MaxRows)
    /\ bRow = 0
    /\ bM = EmptyLookup
    /\ bPc = "loop"

BuildIdle == bDf = <<>> /\ bRow = 0 /\ bM = EmptyLookup /\ bPc = "idle"

BuildStep ==
    /\ bPc = "loop"
    /\ bRow < Len(bDf)
    /\ bM' = BuildRow(bM, ReadFrame(bDf)[bRow + 1])
    /\ bRow' = bRow + 1
    /\ UNCHANGED <<bDf, bPc>>

BuildReturn ==
    /\ bPc = "loop"
    /\ bRow = Len(bDf)
    /\ bPc' = "done"
    /\ UNCHANGED <<bDf, bRow, bM>>

BuildNext == BuildStep \/ BuildReturn

---------------------------------------------------------------------------
(* process_dataframe.  A cell of the study table is a text; distance_km is *)
(* None or a number; a column name is a text, the two names the code       *)
(* spells being kept whole.                                                *)

None == [none |-> TRUE]
Str(text) == [str |-> text]
Num(v) == [num |-> v]

DistanceKmCol == <<"distance_km">>
ErrorCol == <<"error">>
IdCol == <<"i", "d">>
PcCol == <<"p", "c">>
PaddedPcCol == <<" ", "p", "c">>

\* with the build on hand a whole lookup: the rows of a table in order
RECURSIVE BuildRows(_, _)
BuildRows(m, rows) ==
    IF rows = <<>> THEN m ELSE BuildRows(BuildRow(m, Head(rows)), Tail(rows))

build_postal_lookup_from_df(df) == BuildRows(EmptyLookup, ReadFrame(df))

\* api_key or os.environ.get("ORS_API_KEY", ""); "" and None are the empty text
get_ors_client(api_key, env_key) ==
    LET key == IF api_key # <<>> THEN api_key ELSE env_key
    IN  [ok |-> key # <<>>, key |-> key]

\* rec.get(postal_col, None), "" for None, str() and normalize_postal
RowPostal(rec, postal_col) ==
    LET postal_val == IF postal_col \in DOMAIN rec THEN rec[postal_col] ELSE None
    IN  normalize_postal(IF postal_val = None THEN <<>> ELSE postal_val.str)

\* dest = (float(lon), float(lat)) of the (lat, lon) stored
Dest(pair) == <<pair[2], pair[1]>>

\* How one call of route_km_via_ors can end.
RouteOutcomes ==
    { [ok |-> TRUE, km |-> 42000, cause |-> ""],
      [ok |-> TRUE, km |-> 0, cause |-> ""],
      [ok |-> FALSE, km |-> 0, cause |-> "timeout"],
      [ok |-> FALSE, km |-> 0, cause |-> "403"] }
NoCall == [ok |-> FALSE, km |-> 0, cause |-> "no call"]

\* rec["distance_km"] = dist_km; rec["error"] = error
Recorded(rec, dist_km, error) == Put(Put(rec, DistanceKmCol, dist_km), ErrorCol, error)

\* the row's record once the routing call has ended
Routed(rec, outcome) ==
    IF outcome.ok THEN Recorded(rec, Num(outcome.km), Str(<<>>))
    ELSE Recorded(rec, None, Str(<<"Routing error: ", outcome.cause>>))

\* a loop that a failed routing call ends
AfterCallAbortingOnFailure(outcome) == IF outcome.ok THEN "loop" ELSE "raised"

\* where the loop stands once a row's routing call has ended: the except
\* clause catches the failure, so the loop goes on
AfterCall(outcome) == "loop"

\* the columns of pd.DataFrame(out_rows): the keys of the dicts in order
OutColumns(cols) ==
    cols \o (IF \E i \in 1..Len(cols) : cols[i] = DistanceKmCol THEN <<>>
             ELSE <<DistanceKmCol>>)
         \o (IF \E i \in 1..Len(cols) : cols[i] = ErrorCol THEN <<>>
             ELSE <<ErrorCol>>)

\* pd.DataFrame(out_rows): of an empty list, a frame without columns
DataFrame(cols, out_rows) ==
    [columns |-> IF out_rows = <<>> THEN <<>> ELSE OutColumns(cols),
     rows |-> out_rows]

MaxStudyRows == 2

StudyLayouts ==
    { <<IdCol, PcCol>>, <<IdCol, PaddedPcCol>>, <<PcCol, ErrorCol>>,
      <<PcCol, DistanceKmCol>> }

StudyPostals ==
    { <<"a", "1", "a", "1", "a", "1">>, <<"B", "2", "B", " ", "2", "B", "2">>,
      <<"z", "9">> }

\* the column of a layout that holds the postal codes
PostalColumnOf(cols) == IF cols[1] = PcCol THEN cols[1] ELSE cols[2]

\* a row of a study table with the given postal code
StudyRow(cols, postal) ==
    [c \in {cols[1], cols[2]} |->
        IF c = PostalColumnOf(cols) THEN Str(postal)
        ELSE IF c = IdCol THEN Str(<<"7">>)
        ELSE Str(<<"o", "l", "d">>)]

StudyTables(cols, n) ==
    UNION { { [i \in 1..k |-> StudyRow(cols, ps[i])] : ps \in [1..k -> StudyPostals] } :
            k \in 0..n }

GazRowA ==
    [pc |-> <<"a", "1", "a", " ", "1", "a", "1">>, lat |-> <<"4", "9">>,
     lon |-> <<"-", "1">>]
GazRowB ==
    [pc |-> <<"B", "2", "B", " ", "2", "B", "2">>, lat |-> <<"4", "9", "N">>,
     lon |-> <<"-", "1", ".", "5">>]

BatchLookups ==
    { EmptyLookup, build_postal_lookup_from_df(<<GazRowA>>),
      build_postal_lookup_from_df(<<GazRowB, GazRowA>>) }

BatchInit ==
    /\ pCols \in StudyLayouts
    /\ pDf \in StudyTables(pCols, MaxStudyRows)
    /\ pPostalCol = PostalColumnOf(pCols)
    /\ pLookup \in BatchLookups
    /\ pApiKey \in { <<>>, <<"k">> }
    /\ pEnvKey \in { <<>>, <<"e">> }
    /\ pOrigin = <<0 - 119500, 49900>>
    /\ pClient = <<>>
    /\ pI = 0
    /\ pOut = <<>>
    /\ pCalls = <<>>
    /\ pOutcomes = <<>>
    /\ pResult = DataFrame(<<>>, <<>>)
    /\ pPc = "start"

BatchIdle ==
    /\ pCols = <<>> /\ pDf = <<>> /\ pPostalCol = <<>> /\ pLookup = EmptyLookup
    /\ pApiKey = <<>> /\ pEnvKey = <<>> /\ pOrigin = <<0, 0>> /\ pClient = <<>>
    /\ pI = 0 /\ pOut = <<>> /\ pCalls = <<>> /\ pOutcomes = <<>>
    /\ pResult = DataFrame(<<>>, <<>>) /\ pPc = "idle"

batchArgs == <<pCols, pDf, pPostalCol, pLookup, pApiKey, pEnvKey, pOrigin>>

\* client = get_ors_client(api_key): the client is made
MakeClient ==
    /\ pPc = "start"
    /\ get_ors_client(pApiKey, pEnvKey).ok
    /\ pClient' = get_ors_client(pApiKey, pEnvKey).key
    /\ pPc' = "loop"
    /\ UNCHANGED <<batchArgs, pI, pOut, pCalls, pOutcomes, pResult>>

\* client = get_ors_client(api_key): RuntimeError, the key is missing
MakeClientRaises ==
    /\ pPc = "start"
    /\ ~get_ors_client(pApiKey, pEnvKey).ok
    /\ pPc' = "raised"
    /\ UNCHANGED <<batchArgs, pClient, pI, pOut, pCalls, pOutcomes, pResult>>

\* One row whose key is in the lookup: the routing call and its record.
RowRouted ==
    /\ pPc = "loop"
    /\ pI < Len(pDf)
    /\ LET rec == pDf[pI + 1]
           pc == RowPostal(rec, Strip(pPostalCol))
       IN  /\ pc # <<>> /\ pc \in DOMAIN pLookup
           /\ \E outcome \in RouteOutcomes :
                /\ pCalls' = Append(pCalls, [row |-> pI + 1, client |-> pClient,
                                             origin |-> pOrigin,
                                             dest |-> Dest(pLookup[pc])])
                /\ pOutcomes' = Append(pOutcomes, outcome)
                /\ pOut' = Append(pOut, Routed(rec, outcome))
                /\ pPc' = AfterCall(outcome)
    /\ pI' = pI + 1
    /\ UNCHANGED <<batchArgs, pClient, pResult>>

\* One row whose value does not normalize or whose key the lookup lacks.
RowInvalid ==
    /\ pPc = "loop"
    /\ pI < Len(pDf)
    /\ LET rec == pDf[pI + 1]
           pc == RowPostal(rec, Strip(pPostalCol))
       IN  /\ ~(pc # <<>> /\ pc \in DOMAIN pLookup)
           /\ pOut' = Append(pOut, Recorded(rec, None, Str(<<"Invalid Postal Code">>)))
    /\ pOutcomes' = Append(pOutcomes, NoCall)
    /\ pI' = pI + 1
    /\ UNCHANGED <<batchArgs, pClient, pCalls, pResult, pPc>>

\* return pd.DataFrame(out_rows)
BatchReturn ==
    /\ pPc = "loop"
    /\ pI = Len(pDf)
    /\ pResult' = DataFrame(pCols, pOut)
    /\ pPc' = "done"
    /\ UNCHANGED <<batchArgs, pClient, pI, pOut, pCalls, pOutcomes>>


---------------------------------------------------------------------------
(* load_gazetteer_subset as a function of its arguments, for its callers.  *)

\* the chunks of one candidate from the (k+1)-th on; [ok, m]
RECURSIVE ScanChunks(_, _, _, _, _)
ScanChunks(m, cand, chunksize, k, needed_norm) ==
    IF cand.fails /\ cand.at = k + 1 THEN [ok |-> FALSE, m |-> m]
    ELSE IF k * chunksize >= Len(cand.rows) THEN [ok |-> TRUE, m |-> m]
    ELSE LET m2 == ScanRows(m, ReadFrame(ChunkRows(cand.rows, chunksize, k)),
                            needed_norm)
         IN  IF AllFound(m2, needed_norm) THEN [ok |-> TRUE, m |-> m2]
             ELSE ScanChunks(m2, cand, chunksize, k + 1, needed_norm)

\* for p in paths, from the i-th on; ok is FALSE for the RuntimeError
RECURSIVE TryPaths(_, _, _, _)
TryPaths(paths, i, chunksize, needed_norm) ==
    IF i > Len(paths) THEN [ok |-> FALSE, m |-> EmptyLookup]
    ELSE IF paths[i].fails /\ paths[i].at = 0
    THEN TryPaths(paths, i + 1, chunksize, needed_norm)
    ELSE LET r == ScanChunks(EmptyLookup, paths[i], chunksize, 0, needed_norm)
         IN  IF r.ok THEN r ELSE TryPaths(paths, i + 1, chunksize, needed_norm)

load_gazetteer_subset(needed_postals, paths, chunksize) ==
    IF NeededNorm(needed_postals) = {} THEN [ok |-> TRUE, m |-> EmptyLookup]
    ELSE TryPaths(paths, 1, chunksize, NeededNorm(needed_postals))

---------------------------------------------------------------------------
(* app.py: the script runs from its top at every event of the page.  An    *)
(* action is one such run: the event, then everything the script does.     *)

\* chunksize: int = 200_000
DefaultChunksize == 200000

\* app.py names re in norm_any and norm_any_pre and never imports it: calling
\* either raises NameError
ReIsImported == FALSE

\* the gazetteer file deployed with the app, and the default paths: the first
\* is not there, the second is the file
BuiltinTable == << GazRowA, GazRowB >>
BuiltinPaths == << Unreadable(<<>>, 0), Readable(BuiltinTable) >>

\* the gazetteer files a user uploads
UploadedTables == { <<GazRowA>>, <<GazRowB, GazRowA>> }

\* the study tables a user uploads: the cells of the postal column chosen
StudyFiles == { <<>>, << <<"a", "1", "a", "1", "a", "1">> >>,
                << <<"B", "2", "B", " ", "2", "B", "2">> >> }

OriginTexts == { <<>>, <<"a", "1", "a", "1", "a", "1">>,
                 <<"B", "2", "B", " ", "2", "B", "2">> }

AppInit ==
    /\ sLookup = EmptyLookup
    /\ sMode = "none"
    /\ aKey = <<>>
    /\ aUp = FALSE
    /\ aDf = <<>>
    /\ aOriginMode = "postal"
    /\ aOriginPc = <<>>
    /\ aRun = "no run"
    /\ aUsed = EmptyLookup

AppIdle ==
    /\ sLookup = EmptyLookup /\ sMode = "idle" /\ aKey = <<>> /\ aUp = FALSE
    /\ aDf = <<>> /\ aOriginMode = "postal" /\ aOriginPc = <<>>
    /\ aRun = "idle" /\ aUsed = EmptyLookup

\* A run in which Compute is not pressed shows no result of an earlier one.
NoCompute == aRun' = "no run" /\ aUsed' = EmptyLookup

\* the key field is edited
EditKey ==
    /\ \E k \in { <<>>, <<" ">>, <<"k">> } : aKey' = k
    /\ NoCompute
    /\ UNCHANGED <<sLookup, sMode, aUp, aDf, aOriginMode, aOriginPc>>

\* a study CSV is chosen (without one the script stops at st.stop())
UploadStudy ==
    /\ \E df \in StudyFiles : aDf' = df
    /\ aUp' = TRUE
    /\ NoCompute
    /\ UNCHANGED <<sLookup, sMode, aKey, aOriginMode, aOriginPc>>

\* the origin is entered: a postal code, or coordinates
EditOrigin ==
    /\ aUp
    /\ \/ aOriginMode' = "postal" /\ aOriginPc' \in OriginTexts
       \/ aOriginMode' = "coordinates" /\ aOriginPc' = <<>>
    /\ NoCompute
    /\ UNCHANGED <<sLookup, sMode, aKey, aUp, aDf>>

\* "Use built-in postal codes"
UseBuiltin ==
    /\ aUp
    /\ sMode' = "builtin"
    /\ sLookup' = EmptyLookup
    /\ NoCompute
    /\ UNCHANGED <<aKey, aUp, aDf, aOriginMode, aOriginPc>>

\* "Upload your own postal codes"
UseUpload ==
    /\ aUp
    /\ sMode' = "upload"
    /\ sLookup' = EmptyLookup
    /\ NoCompute
    /\ UNCHANGED <<aKey, aUp, aDf, aOriginMode, aOriginPc>>

\* "Build gazetteer map (from upload)"
BuildFromUpload ==
    /\ aUp
    /\ sMode = "upload"
    /\ \E gdf \in UploadedTables : sLookup' = build_postal_lookup_from_df(gdf)
    /\ NoCompute
    /\ UNCHANGED <<sMode, aKey, aUp, aDf, aOriginMode, aOriginPc>>

\* df[postal_col].astype(str).map(norm_any): NameError once a row is mapped
MapRaises(df) == ~ReIsImported /\ df # <<>>

\* needed: the normalized study codes and the origin text as typed
NeededPostals(df, origin_pc_raw) ==
    { normalize_postal(df[i]) : i \in 1..Len(df) }
        \cup (IF origin_pc_raw # <<>> THEN {origin_pc_raw} ELSE {})

\* lookup.get(pc_norm) or lookup.get(pc_norm.replace(" ", "")) finds a pair
OriginResolves(lookup, origin_pc_raw) ==
    /\ origin_pc_raw # <<>>
    /\ \/ normalize_postal(origin_pc_raw) \in DOMAIN lookup
       \/ Unspace(normalize_postal(origin_pc_raw)) \in DOMAIN lookup

\* The Compute block from the lookup on (the origin, the pre-flight count,
\* process_dataframe): how the run ends.
RunWith(lookup) ==
    IF aOriginMode = "postal" /\ ~OriginResolves(lookup, aOriginPc)
    THEN "origin is not set"
    ELSE IF MapRaises(aDf) THEN "NameError"
    ELSE "routed"

\* the subset the built-in mode loads for this table and origin
BuiltinSubset ==
    load_gazetteer_subset(NeededPostals(aDf, aOriginPc), BuiltinPaths,
                          DefaultChunksize)

\* The Compute block up to the lookup: where it stops, or where its lookup
\* comes from ("session": the one in st.session_state; "loaded": the subset
\* built now).
LookupStage(subset) ==
    IF Strip(aKey) = <<>> THEN "key missing"
    ELSE IF sLookup # EmptyLookup THEN "session"
    ELSE IF sMode # "builtin" THEN "lookup not built"
    ELSE IF MapRaises(aDf) THEN "NameError"
    ELSE IF ~subset.ok THEN "subset failed"
    ELSE IF subset.m = EmptyLookup THEN "nothing found"
    ELSE "loaded"

\* lookup = st.session_state["postal_lookup"] at the origin step (empty when
\* the block did not get that far)
LookupInUse(stage, subset) ==
    IF stage = "session" THEN sLookup
    ELSE IF stage = "loaded" THEN subset.m
    ELSE EmptyLookup

\* "Compute"
Compute ==
    /\ aUp
    /\ \E subset \in {BuiltinSubset} :
       \E stage \in {LookupStage(subset)} :
       \E lookup \in {LookupInUse(stage, subset)} :
          /\ sLookup' = IF stage = "loaded" THEN lookup ELSE sLookup
          /\ aRun' = IF stage \in {"session", "loaded"}
                     THEN RunWith(lookup) ELSE stage
          /\ aUsed' = lookup
    /\ UNCHANGED <<sMode, aKey, aUp, aDf, aOriginMode, aOriginPc>>

---------------------------------------------------------------------------
(* The normalizer on a postal code embedded in noise: the text is          *)
(* nPre \o nH1 \o nSep \o nH2 \o nSuf.                                     *)

NoisePre == { <<>>, <<" ", " ">>, <<"c", ",">>, <<"t", "v", " ">> }
NoiseSuf == { <<>>, <<" ", ",", " ", "c">>, <<",">> }
FirstHalves == { <<"v", "6", "t">>, <<"V", "6", "T">>, <<"a", "1", "A">> }
SecondHalves == { <<"1", "z", "4">>, <<"1", "Z", "4">>, <<"2", "b", "3">> }
Separators == { <<>>, <<" ">>, <<" ", " ">>, <<"-">> }

NormText == nPre \o nH1 \o nSep \o nH2 \o nSuf

NormInit ==
    /\ nPre \in NoisePre
    /\ nH1 \in FirstHalves
    /\ nSep \in Separators
    /\ nH2 \in SecondHalves
    /\ nSuf \in NoiseSuf
    /\ nOut = <<>>
    /\ nPc = "ready"

NormIdle ==
    /\ nPre = <<>> /\ nH1 = <<>> /\ nSep = <<>> /\ nH2 = <<>> /\ nSuf = <<>>
    /\ nOut = <<>> /\ nPc = "idle"

Normalize ==
    /\ nPc = "ready"
    /\ nOut' = normalize_postal(NormText)
    /\ nPc' = "done"
    /\ UNCHANGED <<nPre, nH1, nSep, nH2, nSuf>>


---------------------------------------------------------------------------
(* The two lookup builders, each run on one input.                         *)

Init ==
    /\ NormIdle
    /\ BatchIdle
    /\ AppIdle
    /\ \/ SubsetInit /\ BuildIdle
       \/ BuildInit /\ SubsetIdle

Next ==
    \/ NormalizeNeeded /\ UNCHANGED <<normVars, buildVars, batchVars, appVars>>
    \/ OpenCandidate /\ UNCHANGED <<normVars, buildVars, batchVars, appVars>>
    \/ OpenFails /\ UNCHANGED <<normVars, buildVars, batchVars, appVars>>
    \/ ReadChunk /\ UNCHANGED <<normVars, buildVars, batchVars, appVars>>
    \/ SourceExhausted /\ UNCHANGED <<normVars, buildVars, batchVars, appVars>>
    \/ ChunkFails /\ UNCHANGED <<normVars, buildVars, batchVars, appVars>>
    \/ AllCandidatesFailed /\ UNCHANGED <<normVars, buildVars, batchVars, appVars>>
    \/ BuildStep /\ UNCHANGED <<normVars, subsetVars, batchVars, appVars>>
    \/ BuildReturn /\ UNCHANGED <<normVars, subsetVars, batchVars, appVars>>

Spec == Init /\ [][Next]_vars

\* normalize_postal alone
InitNorm == NormInit /\ SubsetIdle /\ BuildIdle /\ BatchIdle /\ AppIdle

NormNext == Normalize /\ UNCHANGED <<subsetVars, buildVars, batchVars, appVars>>

SpecNorm == InitNorm /\ [][NormNext]_vars

\* process_dataframe alone
InitBatch == NormIdle /\ SubsetIdle /\ BuildIdle /\ BatchInit /\ AppIdle

NextBatch ==
    \/ MakeClient /\ UNCHANGED <<normVars, subsetVars, buildVars, appVars>>
    \/ MakeClientRaises /\ UNCHANGED <<normVars, subsetVars, buildVars, appVars>>
    \/ RowRouted /\ UNCHANGED <<normVars, subsetVars, buildVars, appVars>>
    \/ RowInvalid /\ UNCHANGED <<normVars, subsetVars, buildVars, appVars>>
    \/ BatchReturn /\ UNCHANGED <<normVars, subsetVars, buildVars, appVars>>

SpecBatch == InitBatch /\ [][NextBatch]_vars

\* the page alone
InitApp == NormIdle /\ SubsetIdle /\ BuildIdle /\ BatchIdle /\ AppInit

NextApp ==
    \/ EditKey /\ UNCHANGED <<normVars, subsetVars, buildVars, batchVars>>
    \/ UploadStudy /\ UNCHANGED <<normVars, subsetVars, buildVars, batchVars>>
    \/ EditOrigin /\ UNCHANGED <<normVars, subsetVars, buildVars, batchVars>>
    \/ UseBuiltin /\ UNCHANGED <<normVars, subsetVars, buildVars, batchVars>>
    \/ UseUpload /\ UNCHANGED <<normVars, subsetVars, buildVars, batchVars>>
    \/ BuildFromUpload /\ UNCHANGED <<normVars, subsetVars, buildVars, batchVars>>
    \/ Compute /\ UNCHANGED <<normVars, subsetVars, buildVars, batchVars>>

SpecApp == InitApp /\ [][NextApp]_vars

---------------------------------------------------------------------------
(* The claims.                                                             *)

\* C1: every text holding a letter-digit-letter digit-letter-digit code in
\* noise, the halves joined directly, by whitespace or by a hyphen, normalizes
\* to the upper-cased halves with one space between them, never to "".
C1_EmbeddedCodeIsNormalized ==
    nPc = "done" => nOut = Upper(nH1) \o <<" ">> \o Upper(nH2)

\* the same restricted to whitespace separators, which is what the pattern allows
C1_WhitespaceSeparated ==
    (nPc = "done" /\ \A i \in 1..Len(nSep) : nSep[i] \in Whitespace)
        => nOut = Upper(nH1) \o <<" ">> \o Upper(nH2)

HasSpace(k) == \E i \in 1..Len(k) : k[i] = " "

\* key k is stored in m in both forms, spaced and unspaced, with one pair
BothForms(m, k) ==
    IF HasSpace(k)
    THEN Unspace(k) \in DOMAIN m /\ m[Unspace(k)] = m[k]
    ELSE SpaceAfterThird(k) \in DOMAIN m /\ m[SpaceAfterThird(k)] = m[k]

\* C2: in a lookup built by either builder, after any rows, every key is
\* there in its spaced and in its unspaced form, both with the same pair.
C2_EveryKeyInBothForms ==
    /\ \A k \in DOMAIN gM : BothForms(gM, k)
    /\ \A k \in DOMAIN bM : BothForms(bM, k)

\* C2 as amended: every key of load_gazetteer_subset's lookup, and every key
\* of build_postal_lookup_from_df's lookup whose unspaced form has six
\* characters, is there in both forms with the same pair; a key of the
\* latter whose stripped text has not six characters is stored once, as it is.
C2_SixCharacterKeysInBothForms ==
    /\ \A k \in DOMAIN gM : Len(Unspace(k)) = 6 /\ BothForms(gM, k)
    /\ \A k \in DOMAIN bM :
          IF Len(Unspace(k)) = 6 THEN BothForms(bM, k)
          ELSE ~HasSpace(k) /\ \A j \in DOMAIN bM : Unspace(j) = k => j = k

\* a built lookup holding a six-character code and a key of another length
C2_Witness ==
    /\ bPc = "done"
    /\ \E k \in DOMAIN bM : HasSpace(k)
    /\ \E k \in DOMAIN bM : Len(k) = 5

---------------------------------------------------------------------------
(* What a scan has to return, said without the scan: over the rows of a    *)
(* file as its chunks present them.                                        *)

Min(a, b) == IF a < b THEN a ELSE b
Largest(S) == CHOOSE x \in S : \A y \in S : y <= x
Smallest(S) == CHOOSE x \in S : \A y \in S : x <= y

\* the number of chunks of a file
ChunkCount(rows, chunksize) == (Len(rows) + chunksize - 1) \div chunksize

\* row i of the file, as the chunk that holds it shows it
RowAsRead(rows, chunksize, i) ==
    ReadFrame(ChunkRows(rows, chunksize, (i - 1) \div chunksize))[((i - 1) % chunksize) + 1]

\* row i names a wanted code and both its coordinates parse
RowCounts(rows, chunksize, i, closure) ==
    LET r == RowAsRead(rows, chunksize, i)
    IN  /\ normalize_postal(r.pc) \in closure
        /\ parse_float(r.lat).ok
        /\ parse_float(r.lon).ok

RowPair(rows, chunksize, i) ==
    LET r == RowAsRead(rows, chunksize, i)
    IN  <<parse_float(r.lat).v, parse_float(r.lon).v>>

\* the rows among the first n that count and carry key k in either form
RowsFor(rows, chunksize, n, closure, k) ==
    { i \in 1..n : /\ RowCounts(rows, chunksize, i, closure)
                   /\ Unspace(normalize_postal(RowAsRead(rows, chunksize, i).pc))
                        = Unspace(k) }

\* The full lookup of the first n rows (a later row overwriting an earlier
\* one), restricted to the keys of the closure.
LookupOfPrefix(rows, chunksize, n, closure) ==
    [k \in { x \in closure : RowsFor(rows, chunksize, n, closure, x) # {} } |->
        RowPair(rows, chunksize, Largest(RowsFor(rows, chunksize, n, closure, k)))]

\* every wanted code has a row among the first j chunks
SatisfiedAfter(rows, chunksize, j, closure) ==
    \A k \in closure :
        RowsFor(rows, chunksize, Min(j * chunksize, Len(rows)), closure, k) # {}

\* the chunk after which a scan stops: the first that satisfies, else the last
StopChunk(rows, chunksize, closure) ==
    LET sat == { j \in 1..ChunkCount(rows, chunksize) :
                    SatisfiedAfter(rows, chunksize, j, closure) }
    IN  IF sat = {} THEN ChunkCount(rows, chunksize) ELSE Smallest(sat)

Returned == gPc = "done" /\ gNeededNorm # {}

\* C3: the returned lookup is the full lookup of the whole file restricted to
\* the closure of the needed-set.
C3_ReturnsRestrictionOfWholeFile ==
    Returned =>
        gM = LookupOfPrefix(Candidate.rows, gChunk, Len(Candidate.rows), gNeededNorm)

\* C3 as amended: the returned lookup is the full lookup, restricted to the
\* closure of the needed-set, of the rows up to the end of the first chunk
\* after which every needed code has an entry (of the whole file when there
\* is no such chunk); with no code to look for it is empty.
C3_ReturnsRestrictionOfRowsScanned ==
    /\ Returned =>
        gM = LookupOfPrefix(Candidate.rows, gChunk,
                Min(StopChunk(Candidate.rows, gChunk, gNeededNorm) * gChunk,
                    Len(Candidate.rows)),
                gNeededNorm)
    /\ (gPc = "done" /\ NeededNorm(gNeeded) = {}) => gM = EmptyLookup

\* a scan that returned entries and left rows unread
C3_Witness ==
    /\ Returned
    /\ gM # EmptyLookup
    /\ gRead * gChunk < Len(Candidate.rows)

\* C4: a scan that read every chunk returns what a scan with any other chunk
\* size that also has to read every chunk returns.
C4_SameMapForEveryChunkSize ==
    (Returned /\ gRead * gChunk >= Len(Candidate.rows)) =>
        \A c \in 1..MaxChunk :
            StopChunk(Candidate.rows, c, gNeededNorm) * c >= Len(Candidate.rows)
                => gM = LookupOfPrefix(Candidate.rows, c, Len(Candidate.rows),
                                       gNeededNorm)

\* C10: the scan stops after the first chunk that leaves no requested code
\* without an entry, and reads on to the end of the source while one is
\* missing; nothing is read when there is no code to look for.
C10_StopsAtFirstSatisfyingChunk ==
    /\ Returned => gRead = StopChunk(Candidate.rows, gChunk, gNeededNorm)
    /\ gPc = "scan" =>
          \A j \in 1..gRead : ~SatisfiedAfter(Candidate.rows, gChunk, j, gNeededNorm)
    /\ (gPc = "done" /\ gNeededNorm = {}) => gRead = 0

\* a scan that stopped after its second chunk with a chunk still unread
C10_Witness ==
    /\ Returned
    /\ gRead = 2
    /\ gRead * gChunk < Len(Candidate.rows)
    /\ AllFound(gM, gNeededNorm)

---------------------------------------------------------------------------
(* The candidate paths.                                                    *)

\* reading the candidate raises before the scan of it ends: at its opening,
\* or at the fetch of a chunk that the scan comes to (no chunk before it
\* left every needed code with an entry)
CandidateFails(cand, chunksize, closure) ==
    /\ cand.fails
    /\ \/ cand.at = 0
       \/ /\ cand.at - 1 <= ChunkCount(cand.rows, chunksize)
          /\ \A j \in 1..(cand.at - 1) :
                ~SatisfiedAfter(cand.rows, chunksize, j, closure)

\* what the scan of one candidate alone gives
LookupOfCandidate(cand, chunksize, closure) ==
    LookupOfPrefix(cand.rows, chunksize,
                   Min(StopChunk(cand.rows, chunksize, closure) * chunksize,
                       Len(cand.rows)),
                   closure)

\* C11: the candidates are tried in the order given: the one being tried, or
\* returned from, is the first that does not fail, and the last failure
\* recorded is that of the candidate before it; the lookup returned is what
\* that candidate alone gives, with nothing of a candidate that failed
\* part-way; the operation fails exactly when every candidate has failed, the
\* error being that of the last one.  With no code to look for no candidate is
\* tried.
C11_FirstCandidateThatReadsIsReturned ==
    /\ (gPc \in {"open", "scan", "done", "failed"} /\ gNeededNorm # {}) =>
          /\ gPi \in 1..(Len(gPaths) + 1)
          /\ \A j \in 1..(gPi - 1) : CandidateFails(gPaths[j], gChunk, gNeededNorm)
          /\ gLastErr = gPi - 1
    /\ Returned =>
          /\ ~CandidateFails(Candidate, gChunk, gNeededNorm)
          /\ gM = LookupOfCandidate(Candidate, gChunk, gNeededNorm)
    /\ gPc = "failed" =>
          /\ gNeededNorm # {}
          /\ gPi = Len(gPaths) + 1
          /\ gLastErr = Len(gPaths)
    /\ (gPc = "done" /\ gNeededNorm = {}) =>
          gPi = 1 /\ gLastErr = 0 /\ gM = EmptyLookup

\* a scan that returned the second candidate's entry for a code of which the
\* first candidate, failing at its second chunk, had given another
C11_Witness ==
    /\ Returned
    /\ gPi = 2
    /\ gPaths[1].fails /\ gPaths[1].at = 2
    /\ normalize_postal(gPaths[1].rows[1].pc) \in gNeededNorm
    /\ gLastErr = 1
    /\ \E k \in DOMAIN gM : gM[k] = <<49000, 0 - 1000>>

---------------------------------------------------------------------------
(* process_dataframe.                                                      *)

\* the routing calls made for row i
CallsFor(i) == { j \in 1..Len(pCalls) : pCalls[j].row = i }

\* C6: the frame returned has one row per row of the study table, in order,
\* each original column with its original value, and the columns of the
\* study table followed by distance_km and error.
C6_RowsAndColumnsKept ==
    pPc = "done" =>
        /\ Len(pResult.rows) = Len(pDf)
        /\ \A i \in 1..Len(pDf) : \A c \in DOMAIN pDf[i] :
              c \in DOMAIN pResult.rows[i] /\ pResult.rows[i][c] = pDf[i][c]
        /\ pResult.columns = pCols \o <<DistanceKmCol, ErrorCol>>

\* C7: a routing call that fails leaves its row without a distance and with
\* an error that starts "Routing error: " and carries the cause; no row has
\* more than one call; the batch goes on (only the missing key ends it, before
\* any row), and every row's record is the one its own value and its own
\* call's end give, whatever happened to the rows before.
C7_RoutingFailureStaysInItsRow ==
    /\ pPc = "raised" => pCalls = <<>> /\ pOut = <<>>
    /\ pPc = "done" => Len(pOut) = Len(pDf)
    /\ Len(pOutcomes) = Len(pOut)
    /\ \A i \in 1..Len(pOut) :
          /\ Cardinality(CallsFor(i)) <= 1
          /\ (CallsFor(i) # {} /\ ~pOutcomes[i].ok) =>
                /\ pOut[i][DistanceKmCol] = None
                /\ pOut[i][ErrorCol] = Str(<<"Routing error: ", pOutcomes[i].cause>>)
          /\ (CallsFor(i) # {} /\ pOutcomes[i].ok) =>
                /\ pOut[i][DistanceKmCol] = Num(pOutcomes[i].km)
                /\ pOut[i][ErrorCol] = Str(<<>>)
          /\ CallsFor(i) = {} => pOut[i][ErrorCol] = Str(<<"Invalid Postal Code">>)

\* a batch that ended with a failed call on its first row and a distance on
\* its second
C7_Witness ==
    /\ pPc = "done"
    /\ Len(pOut) >= 2
    /\ CallsFor(1) # {} /\ ~pOutcomes[1].ok
    /\ CallsFor(2) # {} /\ pOutcomes[2].ok
    /\ pOut[2][DistanceKmCol] = Num(42000)

\* the claim of C8 for row i, whose destination value is the cell of the
\* postal column the caller named
RowHandledAsClaimed(i) ==
    LET key == normalize_postal(pDf[i][pPostalCol].str)
    IN  IF key = <<>> \/ key \notin DOMAIN pLookup
        THEN /\ CallsFor(i) = {}
             /\ pOut[i][ErrorCol] = Str(<<"Invalid Postal Code">>)
             /\ pOut[i][DistanceKmCol] = None
        ELSE /\ Cardinality(CallsFor(i)) = 1
             /\ \A j \in CallsFor(i) :
                   /\ pCalls[j].origin = pOrigin
                   /\ pCalls[j].dest = <<pLookup[key][2], pLookup[key][1]>>

\* C8: a row whose destination value does not normalize, or whose key the
\* lookup lacks, gets no routing call, the error "Invalid Postal Code" and no
\* distance; a row whose key is in the lookup gets exactly one call, with the
\* origin and the key's coordinates as (longitude, latitude).
C8_RowsRoutedOrInvalid ==
    \A i \in 1..Len(pOut) : RowHandledAsClaimed(i)

\* the same for the tables whose postal column's name has no blank around it
RowsRoutedOrInvalidUnderStrippedName ==
    Strip(pPostalCol) = pPostalCol => \A i \in 1..Len(pOut) : RowHandledAsClaimed(i)

\* C9: with no key passed, the batch ends in the configuration error before
\* any row and any routing call, whatever the environment holds.
C9_MissingKeyEndsTheJob ==
    (pApiKey = <<>> /\ pPc # "start") =>
        pPc = "raised" /\ pOut = <<>> /\ pCalls = <<>>

\* the same when the environment holds no key either
MissingKeyEndsTheJobWithoutEnvKey ==
    (pApiKey = <<>> /\ pEnvKey = <<>> /\ pPc # "start") =>
        pPc = "raised" /\ pOut = <<>> /\ pCalls = <<>>

---------------------------------------------------------------------------
(* The page.                                                               *)

\* the Compute block got as far as working with a lookup
UsedALookup == aRun \in {"origin is not set", "NameError", "routed"} /\ aUsed # EmptyLookup

\* C5: the lookup a compute action works with in built-in mode is the one
\* built from the study codes and the origin that action was given.
C5_LookupBuiltForThisCompute ==
    (sMode = "builtin" /\ UsedALookup) =>
        aUsed = load_gazetteer_subset(NeededPostals(aDf, aOriginPc), BuiltinPaths,
                                      DefaultChunksize).m

\* the scan as it runs and the function return the same
SubsetRunAgreesWithFunction ==
    /\ gPc = "done" => /\ load_gazetteer_subset(gNeeded, gPaths, gChunk).ok
                       /\ gM = load_gazetteer_subset(gNeeded, gPaths, gChunk).m
    /\ gPc = "failed" => ~load_gazetteer_subset(gNeeded, gPaths, gChunk).ok

=============================================================================
